---- MODULE Spec2Model ----
(***************************************************************************)
(* A model of bgpsecsim: the AS graph (as_graph.py), the AS node and the   *)
(* Route record (asys.py), the route propagation engine, the hijack        *)
(* injection and the reachability analysis.  ASes are named by their       *)
(* as_id; a Route's path is the sequence of the as_ids of its ASes.        *)
(* bgpsecsim/routing_policy.py (DefaultPolicy) is not among the sources;   *)
(* accept_route, prefer_route and forward_to follow its description in     *)
(* spec.md, section 4.1.                                                   *)
(***************************************************************************)
EXTENDS Integers, Sequences, FiniteSets, TLC

VARIABLES
    asyss,            \* ASGraph.asyss: the as_ids of the graph's ASes
    neighbors,        \* AS.neighbors of each AS: an insertion-ordered dict,
                      \*   a sequence of <<neighbor as_id, Relation>>
    bgp_sec_enabled,  \* AS.bgp_sec_enabled of each AS
    routing_table,    \* AS.routing_table of each AS: dest as_id -> Route
    routes,           \* the deque `routes` of find_routes_to / hijack_n_hops
    call,             \* the call under way, or the last one made
    repeated,         \* whether that call repeats the call made before it
    hijacked,         \* whether a hijack_n_hops has run since the last reset
    saved,            \* the routing tables as they were when the last call began
    budget,           \* how many more calls the caller makes
    result,           \* what the last reachability query returned
    graph_edges       \* the edges of the networkx graph that ASGraph.__init__
                      \*   has yet to read

vars == <<asyss, neighbors, bgp_sec_enabled, routing_table, routes, call,
          repeated, hijacked, saved, budget, result, graph_edges>>

----------------------------------------------------------------------------
(* Bounds of the model *)

\* ASes of the graphs the propagation engine is run on
NumAS == 3
\* edges of those graphs
MaxEdges == 3
\* calls the caller makes on one graph
MaxOps == 2
\* largest hop count n passed to hijack_n_hops
MaxHops == 2
\* ASes and edges of the graphs the reachability analysis is run on
ReachAS == 4
ReachEdges == 3
\* calls the caller makes where the loop's termination is checked
LiveOps == 1
\* calls of find_routes_to the caller makes where the edge order is varied
OrderOps == 1
\* ASes and edges of the graphs hijack_n_hops is run on with bgp_sec_enabled
\* set, and calls the caller makes there
HijackAS == 4
HijackEdges == 2
HijackOps == 1
\* calls of find_routes_to the caller makes once bgp_sec_enabled has been set
SecOps == 1
\* ASes of the graphs the constructor is followed on, and add_edge calls that
\* build them
ConsAS == 3
ConsEdges == 3

----------------------------------------------------------------------------
(* asys.py: Relation *)

CUSTOMER == 1
PEER == 2
PROVIDER == 3
Relation == {CUSTOMER, PEER, PROVIDER}

\* Python's None, for a missing dict entry or a peer edge's 'customer'
None == 0

----------------------------------------------------------------------------
(* Sequences as Python lists and insertion-ordered dicts *)

Range(s) == {s[i] : i \in DOMAIN s}

\* the sequences of k distinct elements of S
Samples(S, k) ==
    {s \in [1..k -> S] : \A i, j \in 1..k : i # j => s[i] # s[j]}

\* d[key] = value on an insertion-ordered dict of <<key, value>> pairs:
\* an existing key keeps its place, a new key goes last
DictSet(d, key, value) ==
    IF \E i \in DOMAIN d : d[i][1] = key
    THEN [i \in DOMAIN d |-> IF d[i][1] = key THEN <<key, value>> ELSE d[i]]
    ELSE Append(d, <<key, value>>)

\* d.get(key, None)
DictGet(d, key) ==
    IF \E i \in DOMAIN d : d[i][1] = key
    THEN (CHOOSE p \in Range(d) : p[1] = key)[2]
    ELSE None

\* the keys of d whose value is in rels, in d's order
RECURSIVE SelectKeys(_, _)
SelectKeys(d, rels) ==
    IF d = <<>> THEN <<>>
    ELSE IF Head(d)[2] \in rels
         THEN <<Head(d)[1]>> \o SelectKeys(Tail(d), rels)
         ELSE SelectKeys(Tail(d), rels)

----------------------------------------------------------------------------
(* asys.py: AS *)

add_peer(nbrs, self, asys) ==
    [nbrs EXCEPT ![self] = DictSet(nbrs[self], asys, PEER)]

add_customer(nbrs, self, asys) ==
    [nbrs EXCEPT ![self] = DictSet(nbrs[self], asys, CUSTOMER)]

add_provider(nbrs, self, asys) ==
    [nbrs EXCEPT ![self] = DictSet(nbrs[self], asys, PROVIDER)]

get_relation(nbrs, self, asys) == DictGet(nbrs[self], asys)

\* the keys of self.neighbors, in iteration order
neighbor_list(nbrs, self) == SelectKeys(nbrs[self], Relation)

\* reset_routing_table stopping after routing_table.clear()
reset_routing_table_cleared(self) == [d \in {} |-> d]

\* reset_routing_table: the table holds the self-route and nothing else
reset_routing_table(self) ==
    self :> [dest |-> self, path |-> <<self>>, origin_invalid |-> FALSE,
             path_end_invalid |-> FALSE, authenticated |-> TRUE]

\* originate_route
originate_route(self, next_hop, bgpsec) ==
    [dest |-> self, path |-> <<self, next_hop>>, origin_invalid |-> FALSE,
     path_end_invalid |-> FALSE, authenticated |-> bgpsec[self]]

\* forward_route
forward_route(route, next_hop, bgpsec) ==
    [dest |-> route.dest, path |-> Append(route.path, next_hop),
     origin_invalid |-> route.origin_invalid,
     path_end_invalid |-> route.path_end_invalid,
     authenticated |-> route.authenticated /\ bgpsec[next_hop]]

----------------------------------------------------------------------------
(* asys.py: Route *)

length(route) == Len(route.path)
origin(route) == route.path[1]
first_hop(route) == route.path[Len(route.path) - 1]
final(route) == route.path[Len(route.path)]
contains_cycle(route) == Len(route.path) # Cardinality(Range(route.path))

----------------------------------------------------------------------------
(* routing_policy.py: DefaultPolicy, as spec.md section 4.1 describes it *)

\* reject routes whose path already contains the receiver
accept_route(route) == ~contains_cycle(route)

\* the relation of the route's receiver to the neighbor it came from
first_hop_rel(nbrs, route) == get_relation(nbrs, final(route), first_hop(route))

\* customer > peer > provider; a next hop that is no neighbor ranks last
local_pref(nbrs, route) ==
    LET rel == first_hop_rel(nbrs, route) IN IF rel = None THEN 4 ELSE rel

\* prefer_route with its tie-breaks applied whatever the two lengths are
prefer_route_unguarded(nbrs, current, new) ==
    \/ length(new) < length(current)
    \/ local_pref(nbrs, new) < local_pref(nbrs, current)
    \/ /\ local_pref(nbrs, new) = local_pref(nbrs, current)
       /\ first_hop(new) < first_hop(current)

\* true iff new should replace current: shorter paths, then the relation of
\* the next hop, then the lower next-hop as_id
prefer_route(nbrs, current, new) ==
    \/ length(new) < length(current)
    \/ /\ length(new) = length(current)
       /\ \/ local_pref(nbrs, new) < local_pref(nbrs, current)
          \/ /\ local_pref(nbrs, new) = local_pref(nbrs, current)
             /\ first_hop(new) < first_hop(current)

\* routes learned from a customer go to all; routes learned from a peer or
\* provider go only to customers
forward_to(nbrs, route, relation) ==
    first_hop_rel(nbrs, route) = CUSTOMER \/ relation = CUSTOMER

----------------------------------------------------------------------------
(* asys.py: AS.learn_route *)

\* install, keyed by the receiving AS instead of the route's destination
install_under_own_id(table, route) ==
    [d \in DOMAIN table \cup {route.path[Len(route.path)]} |->
        IF d = route.path[Len(route.path)] THEN route ELSE table[d]]

\* install that leaves the route as the table's only entry
install_alone(table, route) == [d \in {route.dest} |-> route]

\* self.routing_table[route.dest] = route
install(table, route) ==
    [d \in DOMAIN table \cup {route.dest} |->
        IF d = route.dest THEN route ELSE table[d]]

\* learn_route without its call of accept_route
rejects_unaccepted(self, nbrs, table, route) ==
    \/ route.dest = self
    \/ /\ route.dest \in DOMAIN table
       /\ ~prefer_route(nbrs, table[route.dest], route)

\* learn_route passing prefer_route its two routes the wrong way round
rejects_swapped(self, nbrs, table, route) ==
    \/ route.dest = self
    \/ ~accept_route(route)
    \/ /\ route.dest \in DOMAIN table
       /\ ~prefer_route(nbrs, route, table[route.dest])

\* learn_route without its comparison with the current route
rejects_unless_new(self, nbrs, table, route) ==
    \/ route.dest = self
    \/ ~accept_route(route)

\* the three early returns of learn_route
rejects(self, nbrs, table, route) ==
    \/ route.dest = self
    \/ ~accept_route(route)
    \/ /\ route.dest \in DOMAIN table
       /\ ~prefer_route(nbrs, table[route.dest], route)

\* forward_to_relations holding every relation, whatever forward_to says
forward_to_relations_all(nbrs, route) == Relation

forward_to_relations(nbrs, route) ==
    {relation \in Relation : forward_to(nbrs, route, relation)}

\* learn_route returning every neighbor, whatever forward_to says
learn_route_to_all(self, nbrs, table, route) ==
    IF rejects(self, nbrs, table, route)
    THEN [table |-> table, out |-> <<>>]
    ELSE [table |-> install(table, route),
          out |-> SelectKeys(nbrs[self], Relation)]

\* learn_route: the AS's table afterwards and the list of ASes to advertise to
learn_route(self, nbrs, table, route) ==
    IF rejects(self, nbrs, table, route)
    THEN [table |-> table, out |-> <<>>]
    ELSE [table |-> install(table, route),
          out |-> SelectKeys(nbrs[self], forward_to_relations(nbrs, route))]

----------------------------------------------------------------------------
(* as_graph.py: ASGraph.__init__ *)

\* an edge of the networkx graph: <<as_id1, as_id2, customer>>, customer being
\* None on a peer edge and the customer's as_id otherwise
EdgesOn(nodes) ==
    {<<a, b, c>> : a \in nodes, b \in nodes, c \in nodes \cup {None}} \cap
    {e \in (nodes \X nodes \X (nodes \cup {None})) :
        e[1] < e[2] /\ e[3] \in {None, e[1], e[2]}}

\* graph.edges: at most n edges, no two on the same pair of nodes, in any order
EdgeLists(nodes, n) ==
    UNION {{s \in [1..k -> EdgesOn(nodes)] :
              \A i, j \in 1..k : i # j => <<s[i][1], s[i][2]>> # <<s[j][1], s[j][2]>>}
           : k \in 0..n}

\* the body of the loop over graph.edges
add_edge(nbrs, e) ==
    LET as1 == e[1]
        as2 == e[2]
        customer == e[3]
    IN IF customer = None
       THEN add_peer(add_peer(nbrs, as1, as2), as2, as1)
       ELSE IF customer = as1
       THEN add_customer(add_provider(nbrs, as1, as2), as2, as1)
       ELSE IF customer = as2
       THEN add_provider(add_customer(nbrs, as1, as2), as2, as1)
       ELSE nbrs

RECURSIVE add_edges(_, _)
add_edges(nbrs, edges) ==
    IF edges = <<>> THEN nbrs
    ELSE add_edges(add_edge(nbrs, Head(edges)), Tail(edges))

\* the neighbors of every AS once the constructor returns
ASGraph_init(nodes, edges) == add_edges([a \in nodes |-> <<>>], edges)

----------------------------------------------------------------------------
(* as_graph.py: the propagation engine *)

Idle == routes = <<>>

Call(name, target, attacker, n, raised) ==
    [name |-> name, target |-> target, attacker |-> attacker, n |-> n,
     raised |-> raised]

NoCall == Call("none", None, None, 0, FALSE)

LastCall == call

\* a call begins: it is recorded, and the tables are remembered
Begin(c) ==
    /\ Idle
    /\ budget > 0
    /\ budget' = budget - 1
    /\ call' = c
    /\ repeated' = (c = call)
    /\ hijacked' = IF c.name = "clear_routing_tables" THEN FALSE
                   ELSE IF c.name = "hijack_n_hops" /\ ~c.raised THEN TRUE
                   ELSE hijacked
    /\ saved' = routing_table

\* clear_routing_tables
clear_routing_tables ==
    /\ Begin(Call("clear_routing_tables", None, None, 0, FALSE))
    /\ routing_table' = [a \in asyss |-> reset_routing_table(a)]
    /\ UNCHANGED <<asyss, neighbors, bgp_sec_enabled, routes, result, graph_edges>>

\* the routes find_routes_to puts on the deque before its loop
originated(nbrs, target, bgpsec) ==
    LET ns == neighbor_list(nbrs, target)
    IN [i \in DOMAIN ns |-> originate_route(target, ns[i], bgpsec)]

\* find_routes_to, up to its loop
find_routes_to(target) ==
    /\ Begin(Call("find_routes_to", target, None, 0, FALSE))
    /\ routes' = originated(neighbors, target, bgp_sec_enabled)
    /\ UNCHANGED <<asyss, neighbors, bgp_sec_enabled, routing_table, result, graph_edges>>

\* bad_path that leaves the attacker out of the forged path
bad_path_without_attacker(victim, attacker, n, middle) == <<victim>> \o middle

\* bad_path that forges the attacker alone whatever n is
bad_path_origin_only(victim, attacker, n, middle) == <<attacker>>

\* the path of hijack_n_hops's bad_route, middle being the sample drawn
bad_path(victim, attacker, n, middle) ==
    IF n = 0 THEN <<attacker>>
    ELSE IF n = 1 THEN <<victim, attacker>>
    ELSE <<victim>> \o middle \o <<attacker>>

\* bad_route with neither invalidity flag set
bad_route_unflagged(victim, attacker, n, middle) ==
    [dest |-> victim, path |-> bad_path(victim, attacker, n, middle),
     origin_invalid |-> FALSE, path_end_invalid |-> FALSE,
     authenticated |-> FALSE]

bad_route(victim, attacker, n, middle) ==
    [dest |-> victim, path |-> bad_path(victim, attacker, n, middle),
     origin_invalid |-> (n = 0), path_end_invalid |-> (n <= 1),
     authenticated |-> FALSE]

\* the routes hijack_n_hops puts on the deque before its loop
seeded(nbrs, attacker, bad, bgpsec) ==
    LET ns == neighbor_list(nbrs, attacker)
    IN [i \in DOMAIN ns |-> forward_route(bad, ns[i], bgpsec)]

\* random.sample raising already when the population is just large enough
sample_fails_at_equal(nodes, victim, attacker, n) ==
    n >= 2 /\ n - 1 >= Cardinality(nodes \ {victim, attacker})

\* random.sample(asyss, n - 1) raises ValueError when the population is too small
sample_fails(nodes, victim, attacker, n) ==
    n >= 2 /\ n - 1 > Cardinality(nodes \ {victim, attacker})

\* hijack_n_hops, up to its loop
hijack_n_hops(victim, attacker, n) ==
    /\ n >= 0
    /\ ~sample_fails(asyss, victim, attacker, n)
    /\ Begin(Call("hijack_n_hops", victim, attacker, n, FALSE))
    /\ \E middle \in Samples(asyss \ {victim, attacker}, IF n >= 2 THEN n - 1 ELSE 0) :
          routes' = seeded(neighbors, attacker,
                           bad_route(victim, attacker, n, middle), bgp_sec_enabled)
    /\ UNCHANGED <<asyss, neighbors, bgp_sec_enabled, routing_table, result, graph_edges>>

\* hijack_n_hops raising ValueError: n < 0, or too few ASes to sample from
hijack_n_hops_raises(victim, attacker, n) ==
    /\ n < 0 \/ sample_fails(asyss, victim, attacker, n)
    /\ Begin(Call("hijack_n_hops", victim, attacker, n, TRUE))
    /\ UNCHANGED <<asyss, neighbors, bgp_sec_enabled, routing_table, routes, result,
                   graph_edges>>

\* reading routes[0] without removing it
peekleft(q) == q

\* routes.popleft(): what is left on the deque
popleft(q) == Tail(q)

\* one iteration of `while routes`
loop_step ==
    /\ routes # <<>>
    /\ LET route == Head(routes)
           asys == final(route)
           learnt == learn_route(asys, neighbors, routing_table[asys], route)
       IN /\ routing_table' = [routing_table EXCEPT ![asys] = learnt.table]
          /\ routes' = popleft(routes) \o
                 [i \in DOMAIN learnt.out |->
                     forward_route(route, learnt.out[i], bgp_sec_enabled)]
    /\ UNCHANGED <<asyss, neighbors, bgp_sec_enabled, call, repeated, hijacked,
                   saved, budget, result, graph_edges>>

----------------------------------------------------------------------------
(* The engine on every graph of at most NumAS ASes and MaxEdges edges, as    *)
(* constructed: bgp_sec_enabled is False on every AS                         *)

NoResult == [call |-> "none", as_id |-> None, value |-> None, raised |-> FALSE]

Graph(nodes, edges) ==
    /\ asyss = nodes
    /\ neighbors = ASGraph_init(nodes, edges)
    /\ routing_table = [a \in nodes |-> reset_routing_table(a)]
    /\ routes = <<>>
    /\ call = NoCall
    /\ repeated = FALSE
    /\ hijacked = FALSE
    /\ saved = routing_table
    /\ result = NoResult
    /\ graph_edges = <<>>

Init ==
    /\ \E edges \in EdgeLists(1..NumAS, MaxEdges) : Graph(1..NumAS, edges)
    /\ bgp_sec_enabled = [a \in asyss |-> FALSE]
    /\ budget = MaxOps

Next ==
    \/ clear_routing_tables
    \/ \E target \in asyss : find_routes_to(target)
    \/ \E victim \in asyss, attacker \in asyss, n \in 0..MaxHops :
          hijack_n_hops(victim, attacker, n)
    \/ \E victim \in asyss, attacker \in asyss, n \in -1..(MaxHops + 1) :
          hijack_n_hops_raises(victim, attacker, n)
    \/ loop_step

Spec == Init /\ [][Next]_vars

\* `while routes` run to its end: the routing tables it leaves
RECURSIVE run_loop(_, _, _, _)
run_loop(nbrs, tables, queue, bgpsec) ==
    IF queue = <<>> THEN tables
    ELSE LET route == Head(queue)
             asys == final(route)
             learnt == learn_route(asys, nbrs, tables[asys], route)
         IN run_loop(nbrs, [tables EXCEPT ![asys] = learnt.table],
                     popleft(queue) \o
                         [i \in DOMAIN learnt.out |->
                             forward_route(route, learnt.out[i], bgpsec)],
                     bgpsec)

\* the routing tables find_routes_to(target) leaves when it returns
find_routes_to_result(nbrs, tables, target, bgpsec) ==
    run_loop(nbrs, tables, originated(nbrs, target, bgpsec), bgpsec)

\* one call on a graph as constructed; its loop runs until the deque is empty
InitOne ==
    /\ \E edges \in EdgeLists(1..NumAS, MaxEdges) : Graph(1..NumAS, edges)
    /\ bgp_sec_enabled = [a \in asyss |-> FALSE]
    /\ budget = LiveOps

LiveSpec == InitOne /\ [][Next]_vars /\ WF_vars(loop_step)

\* find_routes_to on a graph whose ASes have had bgp_sec_enabled set either way
InitSec ==
    /\ \E edges \in EdgeLists(1..NumAS, MaxEdges) : Graph(1..NumAS, edges)
    /\ bgp_sec_enabled \in [asyss -> BOOLEAN]
    /\ budget = SecOps

\* the pairs of ASes joined by an edge where the order of the edge list is
\* varied: two ways from 1 to 4, and 5 behind 4
OrderPairs == {<<1, 2>>, <<1, 3>>, <<2, 4>>, <<3, 4>>, <<4, 5>>}

\* OrderPairs in every order, each pair with every relation
OrderEdgeLists ==
    {[i \in DOMAIN ps |-> <<ps[i][1], ps[i][2], IF c[i] = 0 THEN None ELSE ps[i][c[i]]>>]
     : ps \in Samples(OrderPairs, Cardinality(OrderPairs)),
       c \in [1..Cardinality(OrderPairs) -> 0..2]}

\* find_routes_to from reset tables, on the same edges listed in every order
InitOrder ==
    /\ \E edges \in OrderEdgeLists :
          Graph(UNION {{p[1], p[2]} : p \in OrderPairs}, edges)
    /\ bgp_sec_enabled = [a \in asyss |-> FALSE]
    /\ budget = OrderOps

NextFind ==
    \/ \E target \in asyss : find_routes_to(target)
    \/ loop_step

OrderSpec == InitOrder /\ [][NextFind]_vars

SecSpec == InitSec /\ [][NextFind]_vars

----------------------------------------------------------------------------
(* as_graph.py: the networkx graph handed to ASGraph.__init__ *)

\* nx.Graph(): the nodes in the order they were added, and each node's
\* adjacency, an insertion-ordered dict from neighbor to the edge's 'customer'
nx_Graph(nodes) ==
    [nodes |-> <<>>, adj |-> [a \in nodes |-> <<>>]]

\* graph.add_node(n), as graph.add_edge does it for a node the graph lacks
nx_add_node(g, n) ==
    IF n \in Range(g.nodes) THEN g ELSE [g EXCEPT !.nodes = Append(@, n)]

\* graph.add_edge(u, v, customer=customer): the edge of an unordered pair is
\* kept once, and a later call on the same pair overwrites its attribute
nx_add_edge(g, u, v, customer) ==
    LET g1 == nx_add_node(nx_add_node(g, u), v)
        adj1 == [g1.adj EXCEPT ![u] = DictSet(@, v, customer)]
    IN [g1 EXCEPT !.adj = [adj1 EXCEPT ![v] = DictSet(@, u, customer)]]

\* graph.edges: node by node, every edge once, from the node met first
RECURSIVE nx_edges_from(_, _, _)
nx_edges_from(g, nodeseq, seen) ==
    IF nodeseq = <<>> THEN <<>>
    ELSE LET n == Head(nodeseq)
             nbrs == SelectSeq(g.adj[n], LAMBDA p : p[1] \notin seen)
         IN [i \in DOMAIN nbrs |-> <<n, nbrs[i][1], nbrs[i][2]>>]
            \o nx_edges_from(g, Tail(nodeseq), seen \cup {n})

nx_edges(g) == nx_edges_from(g, g.nodes, {})

\* the calls of graph.add_edge that parse_as_rel_file or a caller can make:
\* any two nodes, the same node twice included, as peers or with either one
\* as the customer
AddEdgeCalls(nodes) ==
    {c \in nodes \X nodes \X (nodes \cup {None}) : c[3] \in {None, c[1], c[2]}}

RECURSIVE nx_build(_, _)
nx_build(g, calls) ==
    IF calls = <<>> THEN g
    ELSE nx_build(nx_add_edge(g, Head(calls)[1], Head(calls)[2], Head(calls)[3]),
                  Tail(calls))

\* one iteration of `for (as_id1, as_id2) in graph.edges`
construct_step ==
    /\ graph_edges # <<>>
    /\ neighbors' = add_edge(neighbors, Head(graph_edges))
    /\ graph_edges' = Tail(graph_edges)
    /\ UNCHANGED <<asyss, bgp_sec_enabled, routing_table, routes, call, repeated,
                   hijacked, saved, budget, result>>

\* ASGraph.__init__ after its loop over graph.nodes, on the graph that at most
\* ConsEdges calls of add_edge have built, duplicates and self-loops included
InitCons ==
    /\ asyss = 1..ConsAS
    /\ neighbors = [a \in asyss |-> <<>>]
    /\ \E k \in 0..ConsEdges : \E calls \in [1..k -> AddEdgeCalls(asyss)] :
          graph_edges = nx_edges(nx_build(nx_Graph(asyss), calls))
    /\ bgp_sec_enabled = [a \in asyss |-> FALSE]
    /\ routing_table = [a \in asyss |-> reset_routing_table(a)]
    /\ routes = <<>>
    /\ call = NoCall
    /\ repeated = FALSE
    /\ hijacked = FALSE
    /\ saved = routing_table
    /\ budget = 0
    /\ result = NoResult

ConsSpec == InitCons /\ [][construct_step]_vars

----------------------------------------------------------------------------
(* as_graph.py: any_customer_provider_cycles *)

\* customer_edges with an edge to each PEER as well
customer_edges_and_peers(nodes, nbrs) ==
    {e \in nodes \X nodes : get_relation(nbrs, e[1], e[2]) \in {CUSTOMER, PEER}}

\* the directed graph with an edge from v to each w that v considers a CUSTOMER
customer_edges(nodes, nbrs) ==
    {e \in nodes \X nodes : get_relation(nbrs, e[1], e[2]) = CUSTOMER}

\* the nodes a path of at least one edge leads to from the nodes of `from`
RECURSIVE descendants(_, _, _)
descendants(edges, from, seen) ==
    LET next == {e[2] : e \in {f \in edges : f[1] \in from}} \ seen
    IN IF next = {} THEN seen ELSE descendants(edges, next, seen \cup next)

\* not nx.is_directed_acyclic_graph(graph)
any_customer_provider_cycles(nodes, nbrs) ==
    \E v \in nodes : v \in descendants(customer_edges(nodes, nbrs), {v}, {})

----------------------------------------------------------------------------
(* as_graph.py: the reachability analysis *)

\* x | y on the arbitrary-precision integers used as bitfields
RECURSIVE BitOr(_, _)
BitOr(x, y) ==
    IF x = 0 THEN y
    ELSE IF y = 0 THEN x
    ELSE (IF x % 2 = 1 \/ y % 2 = 1 THEN 1 ELSE 0) + 2 * BitOr(x \div 2, y \div 2)

\* 1 << k
RECURSIVE Shl1(_)
Shl1(k) == IF k = 0 THEN 1 ELSE 2 * Shl1(k - 1)

\* bit_count: bin(bitfield).count('1')
RECURSIVE bit_count(_)
bit_count(bitfield) ==
    IF bitfield = 0 THEN 0 ELSE (bitfield % 2) + bit_count(bitfield \div 2)

\* the as_ids of `nodes` in ascending order: the order of self.asyss
RECURSIVE SortedIds(_)
SortedIds(nodes) ==
    IF nodes = {} THEN <<>>
    ELSE LET least == CHOOSE a \in nodes : \A b \in nodes : a <= b
         IN <<least>> \o SortedIds(nodes \ {least})

\* s with the elements that occur earlier in it removed: DiGraph.add_edge of
\* an edge the graph already has adds nothing
RECURSIVE Dedup(_)
Dedup(s) ==
    IF s = <<>> THEN <<>>
    ELSE LET front == Dedup(SubSeq(s, 1, Len(s) - 1))
         IN IF s[Len(s)] \in Range(front) THEN front ELSE Append(front, s[Len(s)])

\* the edge _build_reachability_graph adds for one entry of asys.neighbors,
\* with the edge of a PEER drawn between the two 'l' nodes
neighbor_edge_peer_left(as_id, entry) ==
    IF entry[2] = CUSTOMER THEN <<<<"r", as_id>>, <<"r", entry[1]>>>>
    ELSE <<<<"l", as_id>>, <<"l", entry[1]>>>>

\* the edge _build_reachability_graph adds for one entry of asys.neighbors
neighbor_edge(as_id, entry) ==
    IF entry[2] = CUSTOMER THEN <<<<"r", as_id>>, <<"r", entry[1]>>>>
    ELSE IF entry[2] = PEER THEN <<<<"l", as_id>>, <<"r", entry[1]>>>>
    ELSE <<<<"l", as_id>>, <<"l", entry[1]>>>>

RECURSIVE first_loop(_)
first_loop(ids) ==
    IF ids = <<>> THEN <<>>
    ELSE <<<<<<"l", Head(ids)>>, <<"r", Head(ids)>>>>>> \o first_loop(Tail(ids))

RECURSIVE second_loop(_, _)
second_loop(ids, nbrs) ==
    IF ids = <<>> THEN <<>>
    ELSE [i \in DOMAIN nbrs[Head(ids)] |-> neighbor_edge(Head(ids), nbrs[Head(ids)][i])]
         \o second_loop(Tail(ids), nbrs)

\* _build_reachability_graph: the nodes and the edges in the order they are
\* added, and each node's reachable_from
build_reachability_graph(nodes, nbrs) ==
    LET ids == SortedIds(nodes)
    IN [nodes |-> [i \in 1..(2 * Len(ids)) |->
                      IF i % 2 = 1 THEN <<"l", ids[(i + 1) \div 2]>>
                      ELSE <<"r", ids[i \div 2]>>],
        edges |-> Dedup(first_loop(ids) \o second_loop(ids, nbrs)),
        reachable_from |-> [n \in {"l", "r"} \X nodes |->
                               IF n[1] = "l" THEN Shl1(n[2]) ELSE 0]]

\* graph.successors(node), in order
RECURSIVE successors(_, _)
successors(edges, node) ==
    IF edges = <<>> THEN <<>>
    ELSE IF Head(edges)[1] = node
         THEN <<Head(edges)[2]>> \o successors(Tail(edges), node)
         ELSE successors(Tail(edges), node)

in_degree(edges, node) == Cardinality({i \in DOMAIN edges : edges[i][2] = node})

\* nx.ancestors(graph, source): the nodes with a path to source
RECURSIVE ancestors_from(_, _, _)
ancestors_from(edges, frontier, seen) ==
    LET prev == {e[1] : e \in {f \in Range(edges) : f[2] \in frontier}} \ seen
    IN IF prev = {} THEN seen ELSE ancestors_from(edges, prev, seen \cup prev)

ancestors(edges, source) == ancestors_from(edges, {source}, {}) \ {source}

\* determine_reachability_one
reachability_one(nodes, nbrs, as_id) ==
    LET graph == build_reachability_graph(nodes, nbrs)
    IN Cardinality({n \in ancestors(graph.edges, <<"r", as_id>>) : n[1] = "l"})

\* the first loop of determine_reachability_all: remaining_edges and the queue
RECURSIVE initial_queue(_, _)
initial_queue(edges, nodeseq) ==
    IF nodeseq = <<>> THEN <<>>
    ELSE (IF in_degree(edges, Head(nodeseq)) = 0 THEN <<Head(nodeseq)>> ELSE <<>>)
         \o initial_queue(edges, Tail(nodeseq))

\* the for loop over graph.successors(node); st holds queue, remaining_edges
\* (a dict: a deleted key leaves its domain) and reachable_from
RECURSIVE visit_successors(_, _, _)
visit_successors(st, node, succ) ==
    IF succ = <<>> THEN st
    ELSE LET next_node == Head(succ)
             left == st.remaining_edges[next_node] - 1
             rf == [st.reachable_from EXCEPT ![next_node] =
                       BitOr(@, st.reachable_from[node])]
         IN visit_successors(
                IF left = 0
                THEN [queue |-> Append(st.queue, next_node),
                      remaining_edges |->
                          [n \in DOMAIN st.remaining_edges \ {next_node} |->
                              st.remaining_edges[n]],
                      reachable_from |-> rf]
                ELSE [queue |-> st.queue,
                      remaining_edges |->
                          [st.remaining_edges EXCEPT ![next_node] = left],
                      reachable_from |-> rf],
                node, Tail(succ))

\* the while loop of determine_reachability_all
RECURSIVE kahn(_, _)
kahn(edges, st) ==
    IF st.queue = <<>> THEN st
    ELSE kahn(edges,
              visit_successors([st EXCEPT !.queue = Tail(st.queue)],
                               Head(st.queue), successors(edges, Head(st.queue))))

\* the nodes the while loop of determine_reachability_all takes off its queue,
\* in order
RECURSIVE kahn_dequeued(_, _)
kahn_dequeued(edges, st) ==
    IF st.queue = <<>> THEN <<>>
    ELSE <<Head(st.queue)>> \o
         kahn_dequeued(edges,
                       visit_successors([st EXCEPT !.queue = Tail(st.queue)],
                                        Head(st.queue),
                                        successors(edges, Head(st.queue))))

\* the same for a call of determine_reachability_all on the graph
reachability_all_dequeued(nodes, nbrs) ==
    LET graph == build_reachability_graph(nodes, nbrs)
        waiting == {n \in Range(graph.nodes) : in_degree(graph.edges, n) # 0}
    IN kahn_dequeued(graph.edges,
                     [queue |-> initial_queue(graph.edges, graph.nodes),
                      remaining_edges |-> [n \in waiting |-> in_degree(graph.edges, n)],
                      reachable_from |-> graph.reachable_from])

\* determine_reachability_all: the dict it returns
reachability_all(nodes, nbrs) ==
    LET graph == build_reachability_graph(nodes, nbrs)
        waiting == {n \in Range(graph.nodes) : in_degree(graph.edges, n) # 0}
        done == kahn(graph.edges,
                     [queue |-> initial_queue(graph.edges, graph.nodes),
                      remaining_edges |-> [n \in waiting |-> in_degree(graph.edges, n)],
                      reachable_from |-> graph.reachable_from])
    IN [as_id \in nodes |-> bit_count(done.reachable_from[<<"r", as_id>>])]

\* determine_reachability_one(as_id) called: it returns a count, it has no raise.
\* A query reads the graph alone, so one query is followed from each graph.
determine_reachability_one(as_id) ==
    /\ Idle
    /\ result = NoResult
    /\ result' = [call |-> "determine_reachability_one", as_id |-> as_id,
                  value |-> reachability_one(asyss, neighbors, as_id),
                  raised |-> FALSE]
    /\ UNCHANGED <<asyss, neighbors, bgp_sec_enabled, routing_table, routes,
                   call, repeated, hijacked, saved, budget, graph_edges>>

\* determine_reachability_all() called: it returns a dict, it has no raise
determine_reachability_all ==
    /\ Idle
    /\ result = NoResult
    /\ result' = [call |-> "determine_reachability_all", as_id |-> None,
                  value |-> reachability_all(asyss, neighbors), raised |-> FALSE]
    /\ UNCHANGED <<asyss, neighbors, bgp_sec_enabled, routing_table, routes,
                   call, repeated, hijacked, saved, budget, graph_edges>>

\* the edge lists of at most n edges in ascending order of their node pairs
RECURSIVE SortedPairs(_)
SortedPairs(pairs) ==
    IF pairs = {} THEN <<>>
    ELSE LET least == CHOOSE p \in pairs : \A q \in pairs :
                          p[1] < q[1] \/ (p[1] = q[1] /\ p[2] <= q[2])
         IN <<least>> \o SortedPairs(pairs \ {least})

SortedEdgeLists(nodes, n) ==
    UNION {LET ps == SortedPairs(pairs)
           IN {[i \in DOMAIN ps |->
                   <<ps[i][1], ps[i][2],
                     IF c[i] = 0 THEN None ELSE ps[i][c[i]]>>]
               : c \in [DOMAIN ps -> 0..2]}
           : pairs \in {ps \in SUBSET {p \in nodes \X nodes : p[1] < p[2]} :
                           Cardinality(ps) <= n}}

\* the reachability queries on every graph of at most ReachAS ASes and
\* ReachEdges edges
InitReach ==
    /\ \E edges \in SortedEdgeLists(1..ReachAS, ReachEdges) : Graph(1..ReachAS, edges)
    /\ bgp_sec_enabled = [a \in asyss |-> FALSE]
    /\ budget = 0

NextReach ==
    \/ \E as_id \in asyss : determine_reachability_one(as_id)
    \/ determine_reachability_all

ReachSpec == InitReach /\ [][NextReach]_vars

\* hijack_n_hops from reset tables on a graph large enough for a forged path
\* of two hops to reach an AS that is not on it, with bgp_sec_enabled set
\* either way on every AS
InitHijack ==
    /\ \E edges \in SortedEdgeLists(1..HijackAS, HijackEdges) :
          Graph(1..HijackAS, edges)
    /\ bgp_sec_enabled \in [asyss -> BOOLEAN]
    /\ budget = HijackOps

NextHijack ==
    \/ \E victim \in asyss, attacker \in asyss, n \in 0..MaxHops :
          hijack_n_hops(victim, attacker, n)
    \/ \E victim \in asyss, attacker \in asyss, n \in -1..(MaxHops + 1) :
          hijack_n_hops_raises(victim, attacker, n)
    \/ loop_step

HijackSpec == InitHijack /\ [][NextHijack]_vars

----------------------------------------------------------------------------
(* Routing tables *)

Entries(a) == DOMAIN routing_table[a]

\* a hijack_n_hops has run since the tables were last reset
HijackedSinceReset == hijacked

\* an earlier call has installed a route that was there when the last call began
BuiltOnEarlierRoutes == \E a \in asyss : Cardinality(DOMAIN saved[a]) >= 2

ResetTables == [a \in asyss |-> reset_routing_table(a)]

\* C1: in every reachable state, the intermediate ones of a call included,
\* every entry (d, r) of every AS a's routing table has r.dest = d, a as the
\* last element of r.path, and no AS twice in r.path
C1_TableEntriesWellFormed ==
    \A a \in asyss : \A d \in Entries(a) :
        LET r == routing_table[a][d]
        IN r.dest = d /\ final(r) = a /\ ~contains_cycle(r)

\* a hijack_n_hops that follows another call is under way and has installed
\* a forged route of three ASes
C1_Witness ==
    /\ BuiltOnEarlierRoutes
    /\ LastCall.name = "hijack_n_hops"
    /\ routes # <<>>
    /\ \E a \in asyss :
          /\ LastCall.target \in Entries(a)
          /\ a # LastCall.target
          /\ routing_table[a] # saved[a]
          /\ length(routing_table[a][LastCall.target]) = 3

\* the relation of step i of a path, as path[i + 1] sees path[i]: CUSTOMER is
\* a customer-to-provider step, PROVIDER a provider-to-customer step
StepRel(nbrs, path, i) == get_relation(nbrs, path[i + 1], path[i])

ValleyFreePath(nbrs, path) ==
    LET steps == 1..(Len(path) - 1)
    IN /\ Cardinality({i \in steps : StepRel(nbrs, path, i) = PEER}) <= 1
       /\ \A i, j \in steps :
             i < j /\ StepRel(nbrs, path, i) = PROVIDER
                => StepRel(nbrs, path, j) # CUSTOMER

AllRoutesValleyFree ==
    \A a \in asyss : \A d \in Entries(a) :
        ValleyFreePath(neighbors, routing_table[a][d].path)

\* C2 as stated: every installed route is valley-free
C2_Original == AllRoutesValleyFree

\* C2: as long as no hijack_n_hops has run since the tables were last reset,
\* every installed route has at most one peer edge on its path and no
\* customer-to-provider step after a provider-to-customer step
C2_ValleyFreeWithoutHijack == ~HijackedSinceReset => AllRoutesValleyFree

\* find_routes_to has installed a route over a customer-to-provider step
\* followed by a peer step
C2_Witness ==
    /\ ~HijackedSinceReset
    /\ \E a \in asyss : \E d \in Entries(a) :
          LET r == routing_table[a][d]
          IN /\ length(r) = 3
             /\ StepRel(neighbors, r.path, 1) = CUSTOMER
             /\ StepRel(neighbors, r.path, 2) = PEER

\* the last two calls are find_routes_to of the same target
SecondRun ==
    /\ LastCall.name = "find_routes_to"
    /\ repeated

\* C3: a second find_routes_to(t) right after the first leaves every routing
\* table as the first run left it, at every step of the second run
C3_SecondRunChangesNothing == SecondRun => routing_table = saved

\* the second run has ended on a graph where the first installed a route of
\* three ASes
C3_Witness ==
    /\ SecondRun
    /\ Idle
    /\ \E a \in asyss :
          /\ LastCall.target \in Entries(a)
          /\ length(routing_table[a][LastCall.target]) = 3

\* C4: the loop of find_routes_to and of hijack_n_hops always empties the
\* deque, on graphs with customer-provider cycles as well
C4_LoopTerminates == [](~Idle => <>Idle)

\* a call has ended on a graph with a customer-provider cycle, having
\* installed a route of three ASes
C4_Witness ==
    /\ Idle
    /\ LastCall.name # "none"
    /\ any_customer_provider_cycles(asyss, neighbors)
    /\ \E a \in asyss : \E d \in Entries(a) : length(routing_table[a][d]) = 3

\* an AS's neighbors dict with its keys in ascending order
RECURSIVE SortedDict(_)
SortedDict(d) ==
    IF d = <<>> THEN <<>>
    ELSE LET least == CHOOSE p \in Range(d) : \A q \in Range(d) : p[1] <= q[1]
         IN <<least>> \o SortedDict(SelectSeq(d, LAMBDA q : q # least))

\* the graph with every AS's neighbors in ascending order: the same graph
\* built from its edge list in another order
Reordered == [a \in asyss |-> SortedDict(neighbors[a])]

\* a find_routes_to(t) that began on reset tables has returned
FoundFromReset ==
    /\ Idle
    /\ LastCall.name = "find_routes_to"
    /\ saved = ResetTables

\* what the same call leaves on the reordered graph
ReorderedResult ==
    find_routes_to_result(Reordered, saved, LastCall.target, bgp_sec_enabled)

\* C5 as stated: the tables at the fixpoint do not depend on the order in
\* which neighbors are iterated and routes are therefore queued
C5_Original == FoundFromReset => routing_table = ReorderedResult

\* C5: whatever the order in which neighbors are iterated, the first-in
\* first-out loop ends with the same ASes holding a route to t, each with a
\* route of the same length through the same next hop
C5_SameLengthAndNextHop ==
    FoundFromReset =>
        LET other == ReorderedResult
            t == LastCall.target
        IN \A a \in asyss :
              /\ t \in Entries(a) <=> t \in DOMAIN other[a]
              /\ t \in Entries(a) /\ a # t =>
                    /\ length(routing_table[a][t]) = length(other[a][t])
                    /\ first_hop(routing_table[a][t]) = first_hop(other[a][t])

\* the call has returned with a path that the reordered graph does not give
C5_Witness ==
    /\ FoundFromReset
    /\ \E a \in asyss :
          /\ LastCall.target \in Entries(a)
          /\ routing_table[a][LastCall.target].path #
                 ReorderedResult[a][LastCall.target].path

\* the last call is a hijack_n_hops(victim, attacker, n) with n >= 1
HijackCall ==
    /\ LastCall.name = "hijack_n_hops"
    /\ ~LastCall.raised
    /\ LastCall.n >= 1

\* C6 as stated, for an attacker other than the victim: after the call,
\* whatever was installed before it, every entry for the victim with the
\* attacker on its path has at least n + 1 ASes
C6_Original ==
    HijackCall /\ Idle /\ LastCall.attacker # LastCall.target =>
        \A a \in asyss :
            LastCall.target \in Entries(a) =>
                LET r == routing_table[a][LastCall.target]
                IN LastCall.attacker \in Range(r.path) => length(r) >= LastCall.n + 1

\* C6: every entry for the victim that the call has installed has the
\* attacker on its path and at least n + 1 ASes
C6_InstalledByHijack ==
    HijackCall =>
        \A a \in asyss :
            /\ LastCall.target \in Entries(a)
            /\ LastCall.target \notin DOMAIN saved[a]
                  \/ saved[a][LastCall.target] # routing_table[a][LastCall.target]
            => LET r == routing_table[a][LastCall.target]
               IN LastCall.attacker \in Range(r.path) /\ length(r) >= LastCall.n + 1

\* a hijack_n_hops that follows another call has ended, having installed a
\* forged route at an AS that keeps routes of the earlier call
C6_Witness ==
    /\ HijackCall
    /\ Idle
    /\ \E a \in asyss :
          /\ LastCall.target \in Entries(a)
          /\ LastCall.target \notin DOMAIN saved[a]
          /\ Cardinality(DOMAIN saved[a]) = 2
          /\ length(routing_table[a][LastCall.target]) = 3

\* the ASes that signed a route: its origin and every forwarder, that is every
\* AS of the path but the receiver
Signers(route) == {route.path[i] : i \in 1..(Len(route.path) - 1)}

\* C7 as stated: a route that find_routes_to installed is authenticated iff
\* every AS that signed it has BGPsec enabled
C7_Original ==
    \A a \in asyss : \A d \in Entries(a) \ {a} :
        LET r == routing_table[a][d]
        IN r.authenticated <=> \A s \in Signers(r) : bgp_sec_enabled[s]

----------------------------------------------------------------------------
(* Reachability *)

\* the paths of k ASes: sequences of distinct ASes, each a neighbor of the next
RECURSIVE PathsOfLen(_)
PathsOfLen(k) ==
    IF k = 1 THEN {<<a>> : a \in asyss}
    ELSE UNION {{Append(p, b) :
                    b \in {c \in asyss \ Range(p) :
                              get_relation(neighbors, p[Len(p)], c) # None}}
                : p \in PathsOfLen(k - 1)}

Paths == UNION {PathsOfLen(k) : k \in 1..Cardinality(asyss)}

\* zero or more customer-to-provider steps, then at most one peer step, then
\* zero or more provider-to-customer steps; step i leaves p[i], which sees
\* p[i + 1] as its PROVIDER, PEER or CUSTOMER
IsValleyFree(p) ==
    \E top \in 1..Len(p), down \in 1..Len(p) :
        /\ down \in {top, top + 1}
        /\ \A i \in 1..(Len(p) - 1) :
              get_relation(neighbors, p[i], p[i + 1]) =
                  IF i < top THEN PROVIDER
                  ELSE IF i < down THEN PEER
                  ELSE CUSTOMER

\* the ASes a valley-free path leads from to v
CanReach(v) == {p[1] : p \in {q \in Paths : q[Len(q)] = v /\ IsValleyFree(q)}}

\* C8 as stated: determine_reachability_all()[v] is determine_reachability_one(v)
\* for every AS v
C8_Original ==
    result.call = "determine_reachability_all" =>
        \A v \in asyss : result.value[v] = reachability_one(asyss, neighbors, v)

\* C9: determine_reachability_one(v) is the number of ASes, v included, from
\* which a valley-free path leads to v
C9_CountsValleyFreePaths ==
    result.call = "determine_reachability_one" =>
        result.value = Cardinality(CanReach(result.as_id))

\* determine_reachability_one(v) has counted an AS whose valley-free paths to v
\* all climb to a provider, cross a peer edge and descend to a customer
C9_Witness ==
    /\ result.call = "determine_reachability_one"
    /\ result.value = 4
    /\ \E u \in asyss :
          \A p \in Paths :
              p[1] = u /\ p[Len(p)] = result.as_id /\ IsValleyFree(p) =>
                  /\ Len(p) = 4
                  /\ get_relation(neighbors, p[2], p[3]) = PEER

\* C10 as stated: on a graph with a customer-provider cycle both reachability
\* queries fail
C10_Original ==
    result.call # "none" /\ any_customer_provider_cycles(asyss, neighbors) =>
        result.raised

----------------------------------------------------------------------------
(* Construction *)

\* ASGraph.__init__ has returned
Constructed == graph_edges = <<>>

\* C11 as stated: once the constructor has returned, whatever the edge list
\* was, an AS that sees another as CUSTOMER is seen by it as PROVIDER, one
\* that sees another as PROVIDER is seen as CUSTOMER, and PEER is mutual
C11_Original ==
    Constructed =>
        \A a \in asyss, b \in asyss :
            /\ get_relation(neighbors, a, b) = CUSTOMER
                  => get_relation(neighbors, b, a) = PROVIDER
            /\ get_relation(neighbors, a, b) = PROVIDER
                  => get_relation(neighbors, b, a) = CUSTOMER
            /\ get_relation(neighbors, a, b) = PEER
                  => get_relation(neighbors, b, a) = PEER

\* the same for two different ASes
SymmetricBetweenDistinct ==
    Constructed =>
        \A a \in asyss : \A b \in asyss \ {a} :
            /\ get_relation(neighbors, a, b) = CUSTOMER
                  => get_relation(neighbors, b, a) = PROVIDER
            /\ get_relation(neighbors, a, b) = PROVIDER
                  => get_relation(neighbors, b, a) = CUSTOMER
            /\ get_relation(neighbors, a, b) = PEER
                  => get_relation(neighbors, b, a) = PEER

----------------------------------------------------------------------------
(* Self-routes and the attacker's table *)

SelfRoute(a) == reset_routing_table(a)[a]

\* C12: right after clear_routing_tables every AS's table holds its self-route
\* and nothing else, and no find_routes_to or hijack_n_hops ever replaces or
\* removes the self-route of an AS, be it the target, the victim or the attacker
C12_SelfRouteKept ==
    /\ \A a \in asyss : a \in Entries(a) /\ routing_table[a][a] = SelfRoute(a)
    /\ LastCall.name = "clear_routing_tables" =>
           \A a \in asyss : Entries(a) = {a}

\* the last call has installed at AS a a route that a exports to every neighbor
ExportedToAll(a) ==
    /\ LastCall.target \in Entries(a)
    /\ a # LastCall.target
    /\ LastCall.target \notin DOMAIN saved[a]
          \/ saved[a][LastCall.target] # routing_table[a][LastCall.target]
    /\ first_hop_rel(neighbors, routing_table[a][LastCall.target]) = CUSTOMER

\* a hijack_n_hops with n = 0 has ended after a neighbor of the victim was
\* made to install the forged route and offered it to the victim, whose own
\* id is the route's dest and is not on its path
C12_Witness ==
    /\ Idle
    /\ LastCall.name = "hijack_n_hops"
    /\ ~LastCall.raised
    /\ LastCall.n = 0
    /\ LastCall.attacker # LastCall.target
    /\ \E a \in asyss :
          /\ ExportedToAll(a)
          /\ get_relation(neighbors, a, LastCall.target) # None

\* C13: hijack_n_hops leaves the attacker's own routing table as it was when
\* the call began, while it seeds the forged route and all through the loop
C13_AttackerTableUnchanged ==
    LastCall.name = "hijack_n_hops" =>
        routing_table[LastCall.attacker] = saved[LastCall.attacker]

\* a hijack_n_hops has ended after a neighbor of the attacker installed the
\* forged route it got from the attacker and offered it back to the attacker,
\* which had no route to the victim
C13_Witness ==
    /\ Idle
    /\ LastCall.name = "hijack_n_hops"
    /\ ~LastCall.raised
    /\ LastCall.attacker # LastCall.target
    /\ LastCall.target \notin Entries(LastCall.attacker)
    /\ \E a \in asyss :
          /\ ExportedToAll(a)
          /\ first_hop(routing_table[a][LastCall.target]) = LastCall.attacker

----------------------------------------------------------------------------
(* hijack_n_hops *)

\* the ASes other than the victim and the attacker
MiddleASes == asyss \ {LastCall.target, LastCall.attacker}

\* C14: hijack_n_hops raises when n < 0 or when fewer than n - 1 ASes other
\* than the victim and the attacker exist, and in no other case; when it
\* raises, no routing table has changed and nothing is left to propagate
C14_RaisesAndChangesNothing ==
    LastCall.name = "hijack_n_hops" =>
        /\ LastCall.raised <=>
               \/ LastCall.n < 0
               \/ Cardinality(MiddleASes) < LastCall.n - 1
        /\ LastCall.raised => routing_table = saved /\ routes = <<>>

\* a hijack_n_hops asking for more middle ASes than the graph has was made
\* after an earlier call had installed routes
C14_Witness ==
    /\ LastCall.name = "hijack_n_hops"
    /\ LastCall.raised
    /\ LastCall.n >= 2
    /\ BuiltOnEarlierRoutes

\* path begins with the path hijack_n_hops forged
StartsWithForgedPath(path, victim, attacker, n) ==
    IF n = 0 THEN Len(path) >= 1 /\ path[1] = attacker
    ELSE /\ Len(path) >= n + 1
         /\ path[1] = victim
         /\ path[n + 1] = attacker
         /\ \A i \in 2..n :
               /\ path[i] \notin {victim, attacker}
               /\ \A j \in 2..n : i # j => path[i] # path[j]

\* the entries the call under way, or the last call, has installed
InstalledByCall ==
    {<<a, d>> \in asyss \X asyss :
        /\ d \in Entries(a)
        /\ d \notin DOMAIN saved[a] \/ saved[a][d] # routing_table[a][d]}

\* C15: every route a hijack_n_hops(victim, attacker, n) has installed has the
\* victim as dest, is not authenticated, has origin_invalid iff n = 0 and
\* path_end_invalid iff n <= 1, and a path that begins with the forged path
C15_ForgedRoutes ==
    LastCall.name = "hijack_n_hops" =>
        \A e \in InstalledByCall :
            LET r == routing_table[e[1]][e[2]]
            IN /\ r.dest = LastCall.target
               /\ ~r.authenticated
               /\ r.origin_invalid <=> LastCall.n = 0
               /\ r.path_end_invalid <=> LastCall.n <= 1
               /\ StartsWithForgedPath(r.path, LastCall.target,
                                       LastCall.attacker, LastCall.n)

\* a hijack_n_hops with n = 2 has installed its forged route at an AS with
\* BGPsec enabled, the attacker having BGPsec enabled as well
C15_Witness ==
    /\ LastCall.name = "hijack_n_hops"
    /\ LastCall.n = 2
    /\ bgp_sec_enabled[LastCall.attacker]
    /\ \E e \in InstalledByCall :
          /\ bgp_sec_enabled[e[1]]
          /\ length(routing_table[e[1]][e[2]]) = 4

----------------------------------------------------------------------------
(* learn_route, one route at a time *)

\* the route the loop hands to learn_route next, and the AS it hands it to
NextRoute == Head(routes)
Learner == final(NextRoute)

\* learn_route(r) rejects r: r.dest is the AS's own id, or accept_route(r) is
\* false, or an entry for r.dest exists and prefer_route(current, r) is false
Rejected ==
    \/ NextRoute.dest = Learner
    \/ ~accept_route(NextRoute)
    \/ /\ NextRoute.dest \in Entries(Learner)
       /\ ~prefer_route(neighbors, routing_table[Learner][NextRoute.dest], NextRoute)

\* the neighbors of the learner whose relation satisfies forward_to
ForwardTargets ==
    SelectSeq(neighbors[Learner],
              LAMBDA p : forward_to(neighbors, NextRoute, p[2]))

\* C16: when learn_route rejects a route the table stays as it is and nothing
\* is enqueued; otherwise the route is installed under its dest and one
\* forward is enqueued for each neighbor whose relation satisfies forward_to,
\* and for no other
C16_LearnRoute ==
    [][routes # <<>> =>
          IF Rejected
          THEN routing_table' = routing_table /\ routes' = Tail(routes)
          ELSE /\ routing_table' =
                     [routing_table EXCEPT ![Learner] =
                         [d \in Entries(Learner) \cup {NextRoute.dest} |->
                             IF d = NextRoute.dest THEN NextRoute
                             ELSE routing_table[Learner][d]]]
               /\ Len(routes') = Len(routes) - 1 + Len(ForwardTargets)
               /\ \A i \in 1..(Len(routes) - 1) : routes'[i] = routes[i + 1]
               /\ \A i \in DOMAIN ForwardTargets :
                     LET fwd == routes'[Len(routes) - 1 + i]
                     IN /\ fwd.dest = NextRoute.dest
                        /\ fwd.path = Append(NextRoute.path, ForwardTargets[i][1])]_vars

\* a find_routes_to has ended after AS b installed a route and advertised it
\* to AS a, which holds a route that came from another neighbor: a has taken
\* one of the two and rejected the other on prefer_route
C16_Witness ==
    /\ Idle
    /\ LastCall.name = "find_routes_to"
    /\ \E a \in asyss, b \in asyss :
          LET t == LastCall.target
          IN /\ a # b /\ a # t /\ b # t
             /\ t \in Entries(a) /\ t \in Entries(b)
             /\ first_hop(routing_table[a][t]) # b
             /\ a \notin Range(routing_table[b][t].path)
             /\ forward_to(neighbors, routing_table[b][t],
                           get_relation(neighbors, b, a))
             /\ get_relation(neighbors, b, a) # None

\* the key the default policy orders the routes of an AS by: shorter paths
\* first, then customer before peer before provider as next hop, then the
\* lower next-hop id
PreferenceKey(r) == <<length(r), local_pref(neighbors, r), first_hop(r)>>

StrictlyBefore(k1, k2) ==
    \/ k1[1] < k2[1]
    \/ k1[1] = k2[1] /\ k1[2] < k2[2]
    \/ k1[1] = k2[1] /\ k1[2] = k2[2] /\ k1[3] < k2[3]

\* C17: whenever an AS replaces its entry for a destination, the new route is
\* strictly preferred to the old one, and it is no longer than the old one
C17_ReplacedByBetter ==
    [][\A a \in asyss : \A d \in Entries(a) \ {a} :
          d \in DOMAIN routing_table'[a] /\ routing_table'[a][d] # routing_table[a][d]
              => /\ StrictlyBefore(PreferenceKey(routing_table'[a][d]),
                                   PreferenceKey(routing_table[a][d]))
                 /\ length(routing_table'[a][d]) <= length(routing_table[a][d])]_vars

\* an AS has replaced the route an earlier call left it by a route of the same
\* length through a better next hop
C17_Witness ==
    \E a \in asyss : \E d \in Entries(a) \cap DOMAIN saved[a] :
        /\ routing_table[a][d] # saved[a][d]
        /\ length(routing_table[a][d]) = length(saved[a][d])

----------------------------------------------------------------------------
(* The auxiliary graph *)

AuxGraph == build_reachability_graph(asyss, neighbors)

\* no node of the auxiliary graph is reached from itself
AuxIsDAG ==
    \A n \in Range(AuxGraph.nodes) :
        n \notin descendants(Range(AuxGraph.edges), {n}, {})

\* C18: the auxiliary graph is a DAG iff any_customer_provider_cycles()
\* returns false, and when it is a DAG the traversal of
\* determine_reachability_all dequeues every auxiliary node exactly once
C18_DagIffNoCycles ==
    /\ AuxIsDAG <=> ~any_customer_provider_cycles(asyss, neighbors)
    /\ result.call = "determine_reachability_all" /\ AuxIsDAG =>
           LET dequeued == reachability_all_dequeued(asyss, neighbors)
           IN /\ Range(dequeued) = Range(AuxGraph.nodes)
              /\ Len(dequeued) = Len(AuxGraph.nodes)

\* determine_reachability_all has returned on a graph without a
\* customer-provider cycle where a customer, a peer and a provider edge meet
C18_Witness ==
    /\ result.call = "determine_reachability_all"
    /\ AuxIsDAG
    /\ \E a \in asyss :
          {get_relation(neighbors, a, b) : b \in asyss \ {a}} = Relation

----------------------------------------------------------------------------
(* What a call leaves alone *)

\* C19: a find_routes_to(t) or hijack_n_hops(victim, attacker, n) leaves every
\* routing-table entry for a destination other than t or the victim as it was
\* when the call began, and no step changes an AS's neighbors or
\* bgp_sec_enabled
C19_OnlyTargetEntriesChange ==
    [][/\ neighbors' = neighbors
       /\ bgp_sec_enabled' = bgp_sec_enabled
       /\ call'.name \in {"find_routes_to", "hijack_n_hops"} =>
             \A a \in asyss : \A d \in asyss \ {call'.target} :
                 /\ d \in DOMAIN routing_table'[a] <=> d \in DOMAIN saved'[a]
                 /\ d \in DOMAIN saved'[a] => routing_table'[a][d] = saved'[a][d]]_vars

\* a call has ended having installed a route at an AS that holds a route to
\* another destination from an earlier call
C19_Witness ==
    /\ Idle
    /\ LastCall.name \in {"find_routes_to", "hijack_n_hops"}
    /\ \E a \in asyss : \E d \in DOMAIN saved[a] \ {a, LastCall.target} :
          /\ LastCall.target \in Entries(a)
          /\ LastCall.target \notin DOMAIN saved[a]

----------------------------------------------------------------------------
(* Routes and reachability *)

\* the ASes that hold an entry for the target of the last call
Holders == {a \in asyss : LastCall.target \in Entries(a)}

\* C20: after find_routes_to(t) from reset tables on a graph without a
\* customer-provider cycle, every AS that holds an entry for t has a
\* valley-free path to t, and the holders, t included, are at most
\* determine_reachability_one(t)
C20_HoldersCanReach ==
    FoundFromReset /\ ~any_customer_provider_cycles(asyss, neighbors) =>
        /\ Holders \subseteq CanReach(LastCall.target)
        /\ Cardinality(Holders) <=
               reachability_one(asyss, neighbors, LastCall.target)

\* the call has ended with fewer holders than determine_reachability_one(t)
\* counts: an AS with a valley-free path to t has been offered no route
C20_Witness ==
    /\ FoundFromReset
    /\ ~any_customer_provider_cycles(asyss, neighbors)
    /\ Cardinality(Holders) >= 4
    /\ Cardinality(Holders) < reachability_one(asyss, neighbors, LastCall.target)

====
